---------------------------- MODULE Spec2Model ----------------------------
(***************************************************************************)
(* A model of wugrad's scalar reverse-mode autodiff engine                 *)
(* (src/wugrad/engine.py, class Value).                                    *)
(*                                                                         *)
(* The heap of Value objects is the sequence `nodes`: node i is the i-th   *)
(* Value constructed, and the index stands for the object's identity.      *)
(* Numbers are Python ints, which are exact; the inputs are chosen so that *)
(* every power the code evaluates is an integer (see Representable).       *)
(* Every public operation of Value is one action; an operation that raises *)
(* leaves its exception in last.err.                                       *)
(*                                                                         *)
(* Three specifications share the definitions: Spec (graphs of +, * and ** *)
(* with backward() calls), SpecOps (every constructing operation, on       *)
(* Values and raw numbers) and SpecChain (the call stack of backward() on  *)
(* a long chain of additions).                                             *)
(***************************************************************************)
EXTENDS Integers, Sequences, FiniteSets

VARIABLES
    nodes,      \* the Value objects constructed so far, in construction order
    last,       \* the operation just performed, its arguments and its outcome
    calls,      \* history: one record per backward() call made so far
    chainLen,   \* SpecChain: number of `v = v + 1` steps applied to a leaf
    chainRes,   \* SpecChain: outcome of backward() on the chain's last node
    chainStack  \* SpecChain: build_topo frames on the Python stack

vars == <<nodes, last, calls, chainLen, chainRes, chainStack>>

graphVars == <<nodes, last, calls>>

chainVars == <<chainLen, chainRes, chainStack>>

(***************************************************************************)
(* Bounds of the model.                                                    *)
(***************************************************************************)
\* Spec: the Values a run constructs
MaxNodes == 4

\* Spec: the backward() calls a run makes
MaxCalls == 2

\* SpecOps: the Values a run constructs
MaxOpNodes == 3

\* SpecChain: the additions applied in sequence to one leaf
MaxChain == 2000

\* the magnitude of the values constructed: Python's ints are unbounded, and
\* this keeps the products of a backward pass within the checker's integers
MaxData == 1000

\* the raw numbers handed to the operations
Raw == {-1, 0, 2}

\* the numeric exponents handed to __pow__
Exps == {-1, 0, 2}

(***************************************************************************)
(* Arguments.  The non-self operand of an operation is either a Value      *)
(* (<<"node", i>>) or a raw number (<<"num", r>>).                         *)
(***************************************************************************)
NodeArg(i) == <<"node", i>>

NumArg(r) == <<"num", r>>

NoArg == <<"none", 0>>

Ids == 1..Len(nodes)

\* isinstance(other, Value)
IsValue(arg) == arg[1] = "node"

\* mutant of IsNumber: the isinstance assertion of __pow__ accepts anything
IsNumberAny(arg) == TRUE

\* isinstance(other, (int, float))
IsNumber(arg) == arg[1] = "num"

(***************************************************************************)
(* Value.__init__: grad is 0, _backward is the no-op closure, _prev is the *)
(* SET of the children.  bw is the closure later stored in _backward: its  *)
(* kind and the variables it closes over.                                  *)
(***************************************************************************)
NoBackward == [kind |-> "none", self |-> 0, other |-> 0, exp |-> 0]

NewValue(data, children, op) ==
    [data |-> data, grad |-> 0, prev |-> children, op |-> op, bw |-> NoBackward]

\* out._backward = _backward
WithBackward(v, kind, self, other, exp) ==
    [v EXCEPT !.bw = [kind |-> kind, self |-> self, other |-> other, exp |-> exp]]

\* other = other if isinstance(other, Value) else Value(other)
Wrap(ns, arg) ==
    IF IsValue(arg)
    THEN [nodes |-> ns, id |-> arg[2]]
    ELSE [nodes |-> Append(ns, NewValue(arg[2], {}, "")), id |-> Len(ns) + 1]

(***************************************************************************)
(* Python's ** on ints.  base ** e with e < 0 raises ZeroDivisionError for *)
(* base 0 and is the float 1 / base**(-e) otherwise, which is an integer   *)
(* exactly when base is 1 or -1.                                           *)
(***************************************************************************)
RECURSIVE IntPow(_, _)
IntPow(base, e) == IF e = 0 THEN 1 ELSE base * IntPow(base, e - 1)

PowRaises(base, e) == e < 0 /\ base = 0

PyPow(base, e) == IF e >= 0 THEN IntPow(base, e) ELSE IntPow(base, -e)

\* the inputs on which base ** e is an integer or raises
Exact(base, e) == e >= 0 \/ base \in {-1, 0, 1}

\* __pow__ evaluates data ** p at construction and data ** (p - 1) in _backward
Representable(base, p) == Exact(base, p) /\ Exact(base, p - 1)

(***************************************************************************)
(* The operations' results: the heap after the call and the exception.     *)
(***************************************************************************)
Ok(ns) == [nodes |-> ns, err |-> "none"]

Raise(ns, e) == [nodes |-> ns, err |-> e]

\* Value.__add__
AddOp(ns, a, arg) ==
    LET w == Wrap(ns, arg)
        out == NewValue(w.nodes[a].data + w.nodes[w.id].data, {a, w.id}, "+")
    IN  Ok(Append(w.nodes, WithBackward(out, "add", a, w.id, 0)))

\* Value.__mul__
MulOp(ns, a, arg) ==
    LET w == Wrap(ns, arg)
        out == NewValue(w.nodes[a].data * w.nodes[w.id].data, {a, w.id}, "*")
    IN  Ok(Append(w.nodes, WithBackward(out, "mul", a, w.id, 0)))

\* Value.__pow__
PowOp(ns, a, arg) ==
    IF ~IsNumber(arg) THEN Raise(ns, "AssertionError")
    ELSE IF PowRaises(ns[a].data, arg[2]) THEN Raise(ns, "ZeroDivisionError")
    ELSE LET out == NewValue(PyPow(ns[a].data, arg[2]), {a}, "**")
         IN  Ok(Append(ns, WithBackward(out, "pow", a, 0, arg[2])))

\* Value.relu
ReluOp(ns, a) ==
    LET out == NewValue(IF ns[a].data < 0 THEN 0 ELSE ns[a].data, {a}, "relu")
    IN  Ok(Append(ns, WithBackward(out, "relu", a, 0, 0)))

\* Value.tanh and Value.sigmoid: both begin by evaluating math.exp, and
\* engine.py binds no name `math` (the file has no import statement), so the
\* lookup raises NameError before any Value is constructed.
ModuleGlobals == {"Value"}

TanhOp(ns, a) ==
    IF "math" \notin ModuleGlobals THEN Raise(ns, "NameError")
    ELSE Ok(Append(ns, WithBackward(NewValue(0, {a}, "tanh"), "tanh", a, 0, 0)))

SigmoidOp(ns, a) ==
    IF "math" \notin ModuleGlobals THEN Raise(ns, "NameError")
    ELSE Ok(Append(ns, WithBackward(NewValue(0, {a}, "sigmoid"), "sigmoid", a, 0, 0)))

\* Value.__truediv__: self * other**-1.  other**-1 is evaluated first: it is
\* Value.__pow__ when other is a Value and Python's own ** when it is a number.
TruedivOp(ns, a, arg) ==
    IF IsValue(arg)
    THEN LET p == PowOp(ns, arg[2], NumArg(-1))
         IN  IF p.err # "none" THEN p
             ELSE MulOp(p.nodes, a, NodeArg(Len(p.nodes)))
    ELSE IF PowRaises(arg[2], -1) THEN Raise(ns, "ZeroDivisionError")
         ELSE MulOp(ns, a, NumArg(PyPow(arg[2], -1)))

\* Value.__rtruediv__: other * self**-1 with other a raw number, which Python
\* hands to Value.__rmul__ of the power node: (self**-1) * other.
RtruedivOp(ns, a, arg) ==
    LET p == PowOp(ns, a, NumArg(-1))
    IN  IF p.err # "none" THEN p
        ELSE MulOp(p.nodes, Len(p.nodes), arg)

(***************************************************************************)
(* The local backward closures.  g is the gradient of every node; each     *)
(* closure reads out.grad and adds into its operands' gradients, one       *)
(* statement after the other.                                              *)
(***************************************************************************)
\* mutant of AddBackward: `=` in place of `+=`
AddBackwardAssign(ns, out, g) ==
    LET self == ns[out].bw.self
        other == ns[out].bw.other
        g1 == [g EXCEPT ![self] = g[out] * 1]
        g2 == [g1 EXCEPT ![other] = g1[out] * 1]
    IN  [g |-> g2, err |-> "none"]

\* mutant of AddBackward: one contribution per member of the operand set
AddBackwardPerOperand(ns, out, g) ==
    [g |-> [i \in 1..Len(g) |-> IF i \in ns[out].prev THEN g[i] + g[out] * 1 ELSE g[i]],
     err |-> "none"]

\* __add__._backward
AddBackward(ns, out, g) ==
    LET self == ns[out].bw.self
        other == ns[out].bw.other
        g1 == [g EXCEPT ![self] = @ + g[out] * 1]
        g2 == [g1 EXCEPT ![other] = @ + g1[out] * 1]
    IN  [g |-> g2, err |-> "none"]

\* mutant of MulBackward: each operand scaled by its own value
MulBackwardOwn(ns, out, g) ==
    LET self == ns[out].bw.self
        other == ns[out].bw.other
        g1 == [g EXCEPT ![self] = @ + g[out] * ns[self].data]
        g2 == [g1 EXCEPT ![other] = @ + g1[out] * ns[other].data]
    IN  [g |-> g2, err |-> "none"]

\* __mul__._backward
MulBackward(ns, out, g) ==
    LET self == ns[out].bw.self
        other == ns[out].bw.other
        g1 == [g EXCEPT ![self] = @ + g[out] * ns[other].data]
        g2 == [g1 EXCEPT ![other] = @ + g1[out] * ns[self].data]
    IN  [g |-> g2, err |-> "none"]

\* __pow__._backward
PowBackward(ns, out, g) ==
    LET self == ns[out].bw.self
        other == ns[out].bw.exp
    IN  IF PowRaises(ns[self].data, other - 1)
        THEN [g |-> g, err |-> "ZeroDivisionError"]
        ELSE [g |-> [g EXCEPT ![self] =
                        @ + g[out] * (other * PyPow(ns[self].data, other - 1))],
              err |-> "none"]

\* relu._backward
ReluBackward(ns, out, g) ==
    LET self == ns[out].bw.self
    IN  [g |-> [g EXCEPT ![self] = @ + g[out] * (IF ns[out].data > 0 THEN 1 ELSE 0)],
         err |-> "none"]

\* v._backward()
LocalBackward(ns, v, g) ==
    CASE ns[v].bw.kind = "add" -> AddBackward(ns, v, g)
      [] ns[v].bw.kind = "mul" -> MulBackward(ns, v, g)
      [] ns[v].bw.kind = "pow" -> PowBackward(ns, v, g)
      [] ns[v].bw.kind = "relu" -> ReluBackward(ns, v, g)
      [] OTHER -> [g |-> g, err |-> "none"]

(***************************************************************************)
(* Value.backward.  `for child in v._prev` iterates a Python set, whose    *)
(* order the language leaves open: flip is the set of nodes whose two      *)
(* children are met higher index first.                                    *)
(***************************************************************************)
Lo(S) == CHOOSE x \in S : \A y \in S : x <= y

Hi(S) == CHOOSE x \in S : \A y \in S : x >= y

Iter(ns, v, flip) ==
    LET S == ns[v].prev
    IN  IF S = {} THEN <<>>
        ELSE IF Cardinality(S) = 1 THEN <<Lo(S)>>
        ELSE IF v \in flip THEN <<Hi(S), Lo(S)>> ELSE <<Lo(S), Hi(S)>>

\* mutant of AppendAfter: v is appended before the loop over its children
AppendFirst(topoBefore, topoAfter, v) ==
    Append(topoBefore, v) \o SubSeq(topoAfter, Len(topoBefore) + 1, Len(topoAfter))

\* where build_topo appends v: after the loop over its children
AppendAfter(topoBefore, topoAfter, v) == Append(topoAfter, v)

RECURSIVE BuildTopo(_, _, _, _)
BuildTopo(ns, v, st, flip) ==
    IF v \in st.visited THEN st
    ELSE LET s0 == [st EXCEPT !.visited = @ \cup {v}]
             cs == Iter(ns, v, flip)
             s1 == IF Len(cs) >= 1 THEN BuildTopo(ns, cs[1], s0, flip) ELSE s0
             s2 == IF Len(cs) >= 2 THEN BuildTopo(ns, cs[2], s1, flip) ELSE s1
         IN  [s2 EXCEPT !.topo = AppendAfter(s0.topo, @, v)]

\* mutant of Reversed: the loop runs over topo itself
NotReversed(s) == s

\* reversed(topo)
Reversed(s) == [i \in 1..Len(s) |-> s[Len(s) + 1 - i]]

\* mutant of SeedGrad: backward() zeroes every other gradient first
SeedGradReset(g, root) == [i \in 1..Len(g) |-> IF i = root THEN 1 ELSE 0]

\* self.grad = 1
SeedGrad(g, root) == [g EXCEPT ![root] = 1]

\* for v in reversed(topo): v._backward()
RECURSIVE RunLoop(_, _, _, _)
RunLoop(ns, todo, k, st) ==
    IF k > Len(todo) \/ st.err # "none" THEN st
    ELSE LET r == LocalBackward(ns, todo[k], st.g)
         IN  RunLoop(ns, todo, k + 1,
                     [g |-> r.g, order |-> Append(st.order, todo[k]), err |-> r.err])

Grads(ns) == [i \in 1..Len(ns) |-> ns[i].grad]

BackwardOp(ns, root, flip) ==
    LET topo == BuildTopo(ns, root, [visited |-> {}, topo |-> <<>>], flip).topo
        g1 == SeedGrad(Grads(ns), root)
    IN  RunLoop(ns, Reversed(topo), 1, [g |-> g1, order |-> <<>>, err |-> "none"])

\* the nodes reachable from root through operand links, root included
RECURSIVE Reach(_, _)
Reach(ns, v) == {v} \cup UNION {Reach(ns, c) : c \in ns[v].prev}

InitLast == [kind |-> "init", a |-> 0, arg |-> NoArg, err |-> "none"]

Did(kind, a, arg, err) == [kind |-> kind, a |-> a, arg |-> arg, err |-> err]

Init ==
    /\ nodes = <<>>
    /\ last = InitLast
    /\ calls = <<>>
    /\ chainLen = 0
    /\ chainRes = "none"
    /\ chainStack = 0

\* the arguments an operation is given: Values, raw numbers
NodeArgs == {NodeArg(i) : i \in Ids}

RawArgs == {NumArg(r) : r \in Raw}

ExpArgs == {NumArg(p) : p \in Exps}

\* the value of an argument
ArgData(arg) == IF IsValue(arg) THEN nodes[arg[2]].data ELSE arg[2]

\* Commit the result of an operation, the heap holding at most lim Values.
\* An exception propagates to the caller, which does not handle it: the run
\* ends at the first one.
Commit(lim, kind, a, arg, res) ==
    /\ last.err = "none"
    /\ Len(res.nodes) <= lim
    /\ \A i \in 1..Len(res.nodes) : res.nodes[i].data \in -MaxData..MaxData
    /\ nodes' = res.nodes
    /\ last' = Did(kind, a, arg, res.err)
    /\ UNCHANGED <<calls, chainVars>>

\* Value(data)
Leaf(lim) ==
    \E r \in Raw :
        Commit(lim, "leaf", 0, NumArg(r), Ok(Append(nodes, NewValue(r, {}, ""))))

\* a + other
Add(lim, others) ==
    \E a \in Ids, arg \in others : Commit(lim, "add", a, arg, AddOp(nodes, a, arg))

\* a * other
Mul(lim, others) ==
    \E a \in Ids, arg \in others : Commit(lim, "mul", a, arg, MulOp(nodes, a, arg))

\* a ** other
Pow(lim, others) ==
    \E a \in Ids, arg \in others :
        /\ IsNumber(arg) => Representable(nodes[a].data, arg[2])
        /\ Commit(lim, "pow", a, arg, PowOp(nodes, a, arg))

\* a.relu()
Relu(lim) == \E a \in Ids : Commit(lim, "relu", a, NoArg, ReluOp(nodes, a))

\* a.tanh()
Tanh(lim) == \E a \in Ids : Commit(lim, "tanh", a, NoArg, TanhOp(nodes, a))

\* a.sigmoid()
Sigmoid(lim) == \E a \in Ids : Commit(lim, "sigmoid", a, NoArg, SigmoidOp(nodes, a))

\* a / other
Truediv(lim, others) ==
    \E a \in Ids, arg \in others :
        /\ Representable(ArgData(arg), -1)
        /\ Commit(lim, "truediv", a, arg, TruedivOp(nodes, a, arg))

\* other / a, other a raw number
Rtruediv(lim, others) ==
    \E a \in Ids, arg \in others :
        /\ Representable(nodes[a].data, -1)
        /\ Commit(lim, "rtruediv", a, arg, RtruedivOp(nodes, a, arg))

\* another backward() call may still be made
MoreCalls == Len(calls) < MaxCalls

\* root.backward()
Backward ==
    /\ last.err = "none"
    /\ MoreCalls
    /\ \E root \in Ids :
        \E flip \in SUBSET {v \in Reach(nodes, root) : Cardinality(nodes[v].prev) = 2} :
            \E st \in {BackwardOp(nodes, root, flip)} :
                /\ nodes' = [i \in Ids |-> [nodes[i] EXCEPT !.grad = st.g[i]]]
                /\ last' = Did("backward", root, NoArg, st.err)
                /\ calls' = Append(calls, [root |-> root, before |-> Grads(nodes),
                                           after |-> st.g, order |-> st.order,
                                           err |-> st.err])
                /\ UNCHANGED chainVars

(***************************************************************************)
(* Spec: graphs built from leaves by +, * and ** on Values, and backward() *)
(* called on any node at any time, MaxCalls times in all.  A run ends with *)
(* its last backward() call: nothing is built that no call can follow.     *)
(***************************************************************************)
Next ==
    \/ (MoreCalls /\ Leaf(MaxNodes))
    \/ (MoreCalls /\ Add(MaxNodes, NodeArgs))
    \/ (MoreCalls /\ Mul(MaxNodes, NodeArgs))
    \/ (MoreCalls /\ Pow(MaxNodes, ExpArgs))
    \/ Backward

Spec == Init /\ [][Next]_vars

(***************************************************************************)
(* SpecOps: every constructing operation, on Values and on raw numbers.    *)
(***************************************************************************)
NextOps ==
    \/ Leaf(MaxOpNodes)
    \/ Add(MaxOpNodes, NodeArgs \cup RawArgs)
    \/ Mul(MaxOpNodes, NodeArgs \cup RawArgs)
    \/ Pow(MaxOpNodes, ExpArgs \cup NodeArgs)
    \/ Relu(MaxOpNodes)
    \/ Tanh(MaxOpNodes)
    \/ Sigmoid(MaxOpNodes)
    \/ Truediv(MaxOpNodes, NodeArgs \cup RawArgs)
    \/ Rtruediv(MaxOpNodes, RawArgs)

SpecOps == Init /\ [][NextOps]_vars

(***************************************************************************)
(* SpecChain: the graph v0 = Value(0); v = v + 1, chainLen times, and      *)
(* backward() on its last node.  build_topo is recursive (line 117): to    *)
(* reach v0 it nests one Python frame per node of the chain, below the     *)
(* frames of backward() and of its caller, and CPython raises              *)
(* RecursionError when the stack would pass its recursion limit.           *)
(***************************************************************************)
\* sys.getrecursionlimit(), which engine.py leaves at CPython's default
RecursionLimit == 1000

\* the frames below build_topo: the caller's and backward()'s
CallerFrames == 2

\* whether one more Python frame can be pushed on `frames` frames
StackHasRoom(frames) == frames + 1 <= RecursionLimit

\* v = v + 1
ChainAdd ==
    /\ chainRes = "none"
    /\ chainLen < MaxChain
    /\ chainLen' = chainLen + 1
    /\ UNCHANGED <<chainRes, chainStack, graphVars>>

\* v.backward(): build_topo(self) is about to be called
ChainBackward ==
    /\ chainRes = "none"
    /\ chainRes' = "running"
    /\ chainStack' = 0
    /\ UNCHANGED <<chainLen, graphVars>>

\* build_topo(v) is called on the node chainStack links below the root: the
\* call raises when the stack is full, returns through every frame when v is
\* the leaf v0, and otherwise recurses into v's operand.
ChainVisit ==
    /\ chainRes = "running"
    /\ IF ~StackHasRoom(CallerFrames + chainStack)
       THEN chainRes' = "RecursionError" /\ chainStack' = chainStack
       ELSE /\ chainStack' = chainStack + 1
            /\ chainRes' = IF chainStack = chainLen THEN "returned" ELSE "running"
    /\ UNCHANGED <<chainLen, graphVars>>

NextChain == ChainAdd \/ ChainBackward \/ ChainVisit

SpecChain == Init /\ [][NextChain]_vars


(***************************************************************************)
(* The chain rule, stated from the mathematics of each operation and not   *)
(* from the closures: Uses(ns, c) lists every use of an operand by c with  *)
(* the local derivative of c's value in that use.                          *)
(***************************************************************************)
Uses(ns, c) ==
    LET b == ns[c].bw
    IN  CASE b.kind = "add" -> <<<<b.self, 1>>, <<b.other, 1>>>>
          [] b.kind = "mul" -> <<<<b.self, ns[b.other].data>>, <<b.other, ns[b.self].data>>>>
          [] b.kind = "pow" -> <<<<b.self, b.exp * PyPow(ns[b.self].data, b.exp - 1)>>>>
          [] b.kind = "relu" -> <<<<b.self, IF ns[b.self].data > 0 THEN 1 ELSE 0>>>>
          [] OTHER -> <<>>

RECURSIVE SumTo(_, _)
SumTo(f, k) == IF k = 0 THEN 0 ELSE f[k] + SumTo(f, k - 1)

SumSeq(f) == SumTo(f, Len(f))

\* d r / d n: the sum over all operand paths from r down to n of the product
\* of the local derivatives along the path
RECURSIVE PathSum(_, _, _)
PathSum(ns, r, n) ==
    IF r = n THEN 1
    ELSE LET u == Uses(ns, r)
         IN  SumSeq([k \in 1..Len(u) |-> u[k][2] * PathSum(ns, u[k][1], n)])

\* what the consumers of n reachable from c.root hand to n, once per use,
\* each at its own final gradient
Inflow(c, n) ==
    SumSeq([k \in 1..Len(c.after) |->
        IF k \in Reach(nodes, c.root)
        THEN LET u == Uses(nodes, k)
             IN  SumSeq([j \in 1..Len(u) |-> IF u[j][1] = n THEN c.after[k] * u[j][2] ELSE 0])
        ELSE 0])

Calls == {calls[k] : k \in 1..Len(calls)}

\* the call returned: no local backward raised
Returned(c) == c.err = "none"

\* every gradient of the root's graph was 0 before the call
ZeroBefore(c) == \A i \in Reach(nodes, c.root) : c.before[i] = 0

\* the reachable nodes that have n as an operand
Consumers(c, n) == {k \in Reach(nodes, c.root) : n \in nodes[k].prev}

Twice(k) ==
    /\ k \in 1..(Len(calls) - 1)
    /\ calls[k].root = calls[k + 1].root
    /\ ZeroBefore(calls[k])

C2_TwiceDoublesAll ==
    \A k \in 1..Len(calls) :
        (Twice(k) /\ Returned(calls[k]) /\ Returned(calls[k + 1])) =>
            /\ calls[k].after[calls[k].root] = 1
            /\ calls[k + 1].after[calls[k].root] = 1
            /\ \A n \in Reach(nodes, calls[k].root) \ {calls[k].root} :
                  calls[k + 1].after[n] = 2 * calls[k].after[n]

(***************************************************************************)
(* C2, amended.  The gradient is doubled for the nodes whose only consumer *)
(* in R's graph is R itself; R's gradient is 1 after each call.            *)
(***************************************************************************)
C2_TwiceDoublesDirect ==
    \A k \in 1..Len(calls) :
        Twice(k) =>
            /\ calls[k].after[calls[k].root] = 1
            /\ calls[k + 1].after[calls[k].root] = 1
            /\ \A n \in Reach(nodes, calls[k].root) \ {calls[k].root} :
                  Consumers(calls[k], n) = {calls[k].root} =>
                      calls[k + 1].after[n] = 2 * calls[k].after[n]

\* two successive returned calls on a root with a direct operand whose
\* gradient after the first call is not 0
C2_Witness ==
    \E k \in 1..Len(calls) :
        /\ Twice(k) /\ Returned(calls[k]) /\ Returned(calls[k + 1])
        /\ \E n \in Reach(nodes, calls[k].root) \ {calls[k].root} :
              /\ Consumers(calls[k], n) = {calls[k].root}
              /\ calls[k].after[n] # 0

(***************************************************************************)
(* C3.  For a leaf x with gradient 0 and y = x + x: y's operand set holds  *)
(* x exactly once, and after y.backward() x.grad = 2.                      *)
(***************************************************************************)
SelfAdd(c) ==
    /\ nodes[c.root].bw.kind = "add"
    /\ nodes[c.root].bw.self = nodes[c.root].bw.other
    /\ nodes[nodes[c.root].bw.self].prev = {}
    /\ c.before[nodes[c.root].bw.self] = 0

C3_SelfAddCountsTwice ==
    \A c \in Calls :
        SelfAdd(c) =>
            /\ nodes[c.root].prev = {nodes[c.root].bw.self}
            /\ Cardinality(nodes[c.root].prev) = 1
            /\ c.after[nodes[c.root].bw.self] = 2

C3_Witness == \E c \in Calls : SelfAdd(c) /\ Returned(c)

(***************************************************************************)
(* C4.  a ** p with p not a raw number (p a Value) raises the exponent     *)
(* type error (the failed assertion of line 51), creates no node and       *)
(* changes no field of any node.                                           *)
(***************************************************************************)
C4_PowRejectsValueExponent ==
    [][(last' # last /\ last'.kind = "pow" /\ IsValue(last'.arg)) =>
          (last'.err = "AssertionError" /\ nodes' = nodes)]_vars

C4_Witness ==
    /\ last.kind = "pow" /\ IsValue(last.arg) /\ last.err = "AssertionError"
    /\ Len(nodes) >= 2

(***************************************************************************)
(* C5.  As claimed: a / b and n / b with b of value zero raise no error    *)
(* and return a new node.                                                  *)
(***************************************************************************)
DividedByZero ==
    \/ last.kind = "truediv" /\ ArgData(last.arg) = 0
    \/ last.kind = "rtruediv" /\ nodes[last.a].data = 0

C5_DivideByZeroReturns == DividedByZero => last.err = "none"

(***************************************************************************)
(* C6.  R.backward() changes no gradient outside R's graph, and no value,  *)
(* operand set or closure of any node.                                     *)
(***************************************************************************)
C6_BackwardFrame ==
    [][Len(calls') > Len(calls) =>
          /\ Len(nodes') = Len(nodes)
          /\ \A i \in Ids :
                /\ nodes'[i].data = nodes[i].data
                /\ nodes'[i].prev = nodes[i].prev
                /\ nodes'[i].op = nodes[i].op
                /\ nodes'[i].bw = nodes[i].bw
                /\ i \notin Reach(nodes, last'.a) => nodes'[i].grad = nodes[i].grad]_vars

\* a call on a root that one of its consumers, holding a non-zero gradient,
\* was built from
C6_Witness ==
    \E c \in Calls :
        \E i \in 1..Len(c.before) :
            /\ c.root \in nodes[i].prev
            /\ c.before[i] # 0
            /\ c.after[i] = c.before[i]

(***************************************************************************)
(* C7.  As claimed: sigmoid (and tanh) applied to a leaf of value 0        *)
(* raises no error and returns a new node built from the leaf.             *)
(***************************************************************************)
C7_SigmoidReturns ==
    (/\ last.kind \in {"sigmoid", "tanh"}
     /\ nodes[last.a].prev = {}
     /\ nodes[last.a].data = 0)
        => (last.err = "none" /\ nodes[Len(nodes)].prev = {last.a})

C9_ChainNeverExhaustsStack == chainRes # "RecursionError"

=============================================================================
